---- MODULE Spec2Model ----
(***************************************************************************)
(* Model of the three quantum demonstration scripts:                       *)
(*   QDS.py  - hand-rolled 2-qubit simulator, signature generation and     *)
(*             verification, simulate_communication and the interactive    *)
(*             main loop;                                                  *)
(*   QCTS.py - quantum coin toss;                                          *)
(*   QRNG.py - quantum random number generator.                            *)
(*                                                                         *)
(* Amplitudes are exact numbers (a + b*sqrt(2)) / 2^k, so 1/np.sqrt(2) is  *)
(* the real 1/sqrt(2): numpy's arithmetic is modelled by the real          *)
(* arithmetic it approximates.  The rounding of doubles (about 1e-16 per   *)
(* operation) is outside the model.                                        *)
(***************************************************************************)
EXTENDS Integers, Sequences, FiniteSets, TLC

VARIABLES
    pc,             \* control position: "idle", the running call's position, "done"
    call,           \* the call in progress or last completed: [fn, arg]
    qc,             \* the running function's `qc`: the circuit (qc.data)
    state,          \* the running function's local `state` vector
    probabilities,  \* quantum_coin_toss / generate_quantum_random_number: `probabilities`
    ret,            \* value returned (or exception raised) by the last completed call
    out,            \* lines printed by the last step
    sample,         \* the label np.random.choice drew in the last call
    message,        \* main: its local `message` (last line read at the first prompt)
    more_messages,  \* main: its local `more_messages` (last answer read)
    nsim            \* main: number of simulate_communication calls made so far

vars == <<pc, call, qc, state, probabilities, ret, out, sample, message, more_messages, nsim>>

(***************************************************************************)
(* Bounds of the model.                                                    *)
(***************************************************************************)
MaxGates == 3      \* longest circuit a caller builds by hand
MaxMsgs == 3       \* longest list handed to simulate_communication
MaxBits == 3       \* largest num_bits handed to generate_quantum_random_number
MaxRounds == 3     \* simulations counted in one run of main

(***************************************************************************)
(* Exact amplitudes: [a, b, k] stands for (a + b*sqrt(2)) / 2^k, kept in   *)
(* lowest terms so that equal numbers are equal records.                   *)
(***************************************************************************)
RECURSIVE Normalize(_)
Normalize(x) ==
    IF x.k > 0 /\ x.a % 2 = 0 /\ x.b % 2 = 0
    THEN Normalize([a |-> x.a \div 2, b |-> x.b \div 2, k |-> x.k - 1])
    ELSE x

Int2Num(n) == [a |-> n, b |-> 0, k |-> 0]
Zero == Int2Num(0)
One == Int2Num(1)

Max(m, n) == IF m >= n THEN m ELSE n

Add(x, y) ==
    LET K == Max(x.k, y.k)
    IN  Normalize([a |-> x.a * 2^(K - x.k) + y.a * 2^(K - y.k),
                   b |-> x.b * 2^(K - x.k) + y.b * 2^(K - y.k),
                   k |-> K])

Neg(x) == [a |-> 0 - x.a, b |-> 0 - x.b, k |-> x.k]

Sub(x, y) == Add(x, Neg(y))

Mul(x, y) ==
    Normalize([a |-> x.a * y.a + 2 * x.b * y.b,
               b |-> x.a * y.b + x.b * y.a,
               k |-> x.k + y.k])

\* x / np.sqrt(2): 1/sqrt(2) = sqrt(2)/2
DivSqrt2(x) == Mul(x, [a |-> 0, b |-> 1, k |-> 1])

\* |x|^2 of a real amplitude
AbsSq(x) == Mul(x, x)

RECURSIVE SumTo(_, _)
\* f[0] + ... + f[n]
SumTo(f, n) == IF n = 0 THEN f[0] ELSE Add(SumTo(f, n - 1), f[n])

\* sum of squared magnitudes of a vector indexed 0..N-1
NormSq(vec) ==
    LET N == Cardinality(DOMAIN vec)
    IN  SumTo([i \in DOMAIN vec |-> AbsSq(vec[i])], N - 1)

(***************************************************************************)
(* Circuits: qc.data is a sequence of instructions, each with the name of  *)
(* its operation and the qubits (and classical bits) it acts on.           *)
(***************************************************************************)
X(q) == [name |-> "x", qubits |-> <<q>>, clbits |-> <<>>]
H(q) == [name |-> "h", qubits |-> <<q>>, clbits |-> <<>>]
CX(c, t) == [name |-> "cx", qubits |-> <<c, t>>, clbits |-> <<>>]
Measure(q, c) == [name |-> "measure", qubits |-> <<q>>, clbits |-> <<c>>]

\* the instructions a 2-qubit, 1-clbit circuit can hold
Instructions == {X(0), X(1), H(0), H(1), CX(0, 1), CX(1, 0), Measure(1, 0)}

\* the circuits a caller builds by hand
BuiltCircuits == UNION {[1..n -> Instructions] : n \in 0..MaxGates}

\* str.lower() on the strings the model reads
Lower(s) ==
    CASE s = "YES" -> "yes"
      [] s = "Yes" -> "yes"
      [] s = "NO" -> "no"
      [] s = "EXIT" -> "exit"
      [] s = "X" -> "x"
      [] s = "H" -> "h"
      [] s = "CX" -> "cx"
      [] OTHER -> s

(***************************************************************************)
(* QDS.py: simulate_quantum_circuit.  Vectors are indexed 0..3 as in the   *)
(* source.                                                                 *)
(***************************************************************************)
NoLocal == <<>>

Vec4(v0, v1, v2, v3) ==
    [i \in 0..3 |-> CASE i = 0 -> v0 [] i = 1 -> v1 [] i = 2 -> v2 [] OTHER -> v3]

\* state = np.array([1, 0, 0, 0])
InitState == Vec4(One, Zero, Zero, Zero)

\* any(inst.operation.name.lower() == nm for inst in qc.data)
HasGate(c, nm) == \E i \in 1..Len(c) : Lower(c[i].name) = nm

\* np.kron of two vectors of length 2
Kron(u, v) == [i \in 0..3 |-> Mul(u[i \div 2], v[i % 2])]

\* variant of hadamard without the division by np.sqrt(2)
hadamard_unscaled == [j \in 0..1 |-> One]

\* hadamard = np.array([1, 1]) / np.sqrt(2)
hadamard == [j \in 0..1 |-> DivSqrt2(One)]

\* lines 13-15: the X step
XStep(c, s) ==
    IF HasGate(c, "x") THEN Vec4(Zero, One, Zero, Zero) ELSE s

\* variant of HStep with the operands of np.kron exchanged
HStep_KronSwapped(c, s) ==
    IF HasGate(c, "h") THEN Kron(hadamard, [i \in 0..1 |-> s[i]]) ELSE s

\* lines 17-20: the H step, state = np.kron(state[:2], hadamard)
HStep(c, s) ==
    IF HasGate(c, "h") THEN Kron([i \in 0..1 |-> s[i]], hadamard) ELSE s

\* lines 22-27: the CX step
CXStep(c, s) ==
    IF HasGate(c, "cx") /\ s[1] = One
    THEN [s EXCEPT ![3] = s[2], ![2] = Zero]
    ELSE s

\* the value simulate_quantum_circuit(qc) returns
simulate_quantum_circuit(c) == CXStep(c, HStep(c, XStep(c, InitState)))

(***************************************************************************)
(* QDS.py: generate_signature, verify_signature, simulate_communication.   *)
(***************************************************************************)
Return(v) == [kind |-> "return", value |-> v]
Raise(e) == [kind |-> "raise", exc |-> e]

\* the messages callers pass
Msgs == {"0", "1", "2", "", "exit"}

generate_signature(m) ==
    IF m \notin {"0", "1"}
    THEN Raise("ValueError")
    ELSE Return((IF m = "1" THEN <<X(0)>> ELSE <<>>)
                    \o <<H(1), CX(0, 1), Measure(1, 0)>>)

verify_signature(c) ==
    LET st == simulate_quantum_circuit(c)
        signature == st[3]
    IN  IF signature = One THEN "1" ELSE "0"

\* a printed line: its text and the value formatted into it
Line(text, val) == <<text, val>>

\* one iteration of simulate_communication's loop: the lines it prints
CommIteration(m) ==
    LET sig == generate_signature(m)
    IN  IF sig.kind = "raise"
        THEN <<Line("Alice's message", m), Line("Error", sig.exc)>>
        ELSE LET verification_result == verify_signature(sig.value)
             IN  <<Line("Alice's message", m),
                   Line("Quantum Circuit for Signature Generation", "draw"),
                   Line("Verification result", verification_result),
                   IF verification_result = "1"
                   THEN Line("Signature verified successfully!", "")
                   ELSE Line("Verification failed!", "")>>

RECURSIVE simulate_communication_abort(_)
\* variant of simulate_communication with the try around the whole loop: the
\* first ValueError ends it
simulate_communication_abort(messages) ==
    IF messages = <<>> THEN <<>>
    ELSE IF generate_signature(Head(messages)).kind = "raise"
    THEN CommIteration(Head(messages))
    ELSE CommIteration(Head(messages))
            \o simulate_communication_abort(Tail(messages))

RECURSIVE simulate_communication(_)
\* the lines simulate_communication(messages) prints
simulate_communication(messages) ==
    IF messages = <<>> THEN <<>>
    ELSE CommIteration(Head(messages)) \o simulate_communication(Tail(messages))

MessageLists == UNION {[1..n -> Msgs] : n \in 0..MaxMsgs}

\* the circuits handed to simulate_quantum_circuit and verify_signature: those
\* built by hand and those generate_signature returns
Circuits == BuiltCircuits \cup {generate_signature(m).value : m \in {"0", "1"}}

(***************************************************************************)
(* Gate semantics of the circuit library (Statevector.from_instruction)    *)
(* and of the gate definitions: a vector over 0..2^n-1, index i standing   *)
(* for the basis label that is the binary representation of i.  A gate on  *)
(* qubit q acts on one bit position of the index: position q when qubit 0  *)
(* is the least significant bit ("lsb", the library's order), position     *)
(* n-1-q when qubit 0 is the most significant bit ("msb", the order of     *)
(* np.kron(first qubit, second qubit)).                                    *)
(***************************************************************************)
Orders == {"lsb", "msb"}

Pos(ord, q, n) == IF ord = "lsb" THEN q ELSE n - 1 - q

Bit(i, p) == (i \div 2^p) % 2

FlipBit(i, p) == IF Bit(i, p) = 0 THEN i + 2^p ELSE i - 2^p

ZeroState(n) == [i \in 0..(2^n - 1) |-> IF i = 0 THEN One ELSE Zero]

Hadamard(vec, p) ==
    [i \in DOMAIN vec |->
        IF Bit(i, p) = 0
        THEN DivSqrt2(Add(vec[i], vec[FlipBit(i, p)]))
        ELSE DivSqrt2(Sub(vec[FlipBit(i, p)], vec[i]))]

PauliX(vec, p) == [i \in DOMAIN vec |-> vec[FlipBit(i, p)]]

ControlledX(vec, pcontrol, ptarget) ==
    [i \in DOMAIN vec |->
        IF Bit(i, pcontrol) = 1 THEN vec[FlipBit(i, ptarget)] ELSE vec[i]]

\* one instruction applied to an n-qubit vector; a measurement leaves the
\* amplitudes as they are
ApplyGate(vec, g, n, ord) ==
    CASE g.name = "h" -> Hadamard(vec, Pos(ord, g.qubits[1], n))
      [] g.name = "x" -> PauliX(vec, Pos(ord, g.qubits[1], n))
      [] g.name = "cx" ->
            ControlledX(vec, Pos(ord, g.qubits[1], n), Pos(ord, g.qubits[2], n))
      [] OTHER -> vec

RECURSIVE Evolve(_, _, _, _)
\* the instructions of c applied in circuit order
Evolve(vec, c, n, ord) ==
    IF c = <<>> THEN vec
    ELSE Evolve(ApplyGate(vec, Head(c), n, ord), Tail(c), n, ord)

\* Statevector.from_instruction(qc) of an n-qubit circuit
Statevector(c, n) == Evolve(ZeroState(n), c, n, "lsb")

\* the basis label of index i: its binary representation on n digits
Label(i, n) == [j \in 1..n |-> IF Bit(i, n - j) = 1 THEN "1" ELSE "0"]

RECURSIVE LabelIndex(_)
\* the index whose binary representation is the label l
LabelIndex(l) ==
    IF l = <<>> THEN 0
    ELSE 2 * LabelIndex(SubSeq(l, 1, Len(l) - 1))
            + (IF l[Len(l)] = "1" THEN 1 ELSE 0)

\* state.probabilities_dict(): label -> |amplitude|^2, for the nonzero entries
probabilities_dict(vec, n) ==
    LET nonzero == {i \in DOMAIN vec : AbsSq(vec[i]) # Zero}
    IN  [l \in {Label(i, n) : i \in nonzero} |-> AbsSq(vec[LabelIndex(l)])]

\* np.random.choice(list(p.keys()), p=list(p.values())): the labels it can draw
Choices(p) == {l \in DOMAIN p : p[l] # Zero}

(***************************************************************************)
(* QCTS.py: quantum_coin_toss.                                             *)
(***************************************************************************)
\* qc = QuantumCircuit(1); qc.h(0)
CoinCircuit == <<H(0)>>

CoinProbabilities == probabilities_dict(Statevector(CoinCircuit, 1), 1)

\* variant of CoinResult comparing the label with the integer 0, which no
\* label equals
CoinResult_IntCompare(toss_result) == "Tails"

\* lines 36-39: the result for a sampled label
CoinResult(toss_result) == IF toss_result = <<"0">> THEN "Heads" ELSE "Tails"

(***************************************************************************)
(* QRNG.py: generate_quantum_random_number.                                *)
(***************************************************************************)
\* variant of RngCircuit looping over range(1, num_bits)
RngCircuit_SkipFirst(num_bits) == [i \in 1..(num_bits - 1) |-> H(i)]

\* qc = QuantumCircuit(num_bits); for i in range(num_bits): qc.h(i)
RngCircuit(num_bits) == [i \in 1..num_bits |-> H(i - 1)]

RngProbabilities(num_bits) ==
    probabilities_dict(Statevector(RngCircuit(num_bits), num_bits), num_bits)

(***************************************************************************)
(* The state machine.  The functions share no state between calls, so a    *)
(* behaviour is one call made by a caller (a test, a script's __main__     *)
(* block) from pc = "idle" to pc = "done".  Locals of the functions that   *)
(* are not running hold their defaults.                                    *)
(***************************************************************************)
Unset == "<unset>"
NoRet == [kind |-> "none"]
NoSample == <<>>
Call(fn, arg) == [fn |-> fn, arg |-> arg]

SimPcs == {"sim_init", "sim_x", "sim_h", "sim_cx"}
MainPcs == {"main_prompt", "main_more"}

NoSimLocals == qc' = NoLocal /\ state' = NoLocal /\ probabilities' = NoLocal
NoMainLocals == message' = Unset /\ more_messages' = Unset /\ nsim' = 0

Init ==
    /\ pc = "idle"
    /\ call = Call("none", <<>>)
    /\ qc = NoLocal
    /\ state = NoLocal
    /\ probabilities = NoLocal
    /\ ret = NoRet
    /\ out = <<>>
    /\ sample = NoSample
    /\ message = Unset
    /\ more_messages = Unset
    /\ nsim = 0

\* simulate_quantum_circuit(c) is entered: line 11
SimBegin(c) ==
    /\ pc = "idle"
    /\ pc' = "sim_init"
    /\ call' = Call("simulate_quantum_circuit", c)
    /\ qc' = c
    /\ state' = InitState
    /\ probabilities' = NoLocal
    /\ ret' = NoRet
    /\ out' = <<>>
    /\ sample' = NoSample
    /\ NoMainLocals

\* lines 13-15
SimX ==
    /\ pc = "sim_init"
    /\ pc' = "sim_x"
    /\ state' = XStep(qc, state)
    /\ UNCHANGED <<call, qc, probabilities, ret, out, sample, message, more_messages, nsim>>

\* lines 17-20
SimH ==
    /\ pc = "sim_x"
    /\ pc' = "sim_h"
    /\ state' = HStep(qc, state)
    /\ UNCHANGED <<call, qc, probabilities, ret, out, sample, message, more_messages, nsim>>

\* lines 22-27
SimCX ==
    /\ pc = "sim_h"
    /\ pc' = "sim_cx"
    /\ state' = CXStep(qc, state)
    /\ UNCHANGED <<call, qc, probabilities, ret, out, sample, message, more_messages, nsim>>

\* line 30: return state
SimReturn ==
    /\ pc = "sim_cx"
    /\ pc' = "done"
    /\ ret' = Return(state)
    /\ UNCHANGED <<call, qc, state, probabilities, out, sample, message, more_messages, nsim>>

\* lines 33-55
GenerateSignature(m) ==
    /\ pc = "idle"
    /\ pc' = "done"
    /\ call' = Call("generate_signature", m)
    /\ ret' = generate_signature(m)
    /\ out' = <<>>
    /\ sample' = NoSample
    /\ NoSimLocals
    /\ NoMainLocals

\* lines 58-72
VerifySignature(c) ==
    /\ pc = "idle"
    /\ pc' = "done"
    /\ call' = Call("verify_signature", c)
    /\ ret' = Return(verify_signature(c))
    /\ out' = <<>>
    /\ sample' = NoSample
    /\ NoSimLocals
    /\ NoMainLocals

\* lines 75-98
SimulateCommunication(messages) ==
    /\ pc = "idle"
    /\ pc' = "done"
    /\ call' = Call("simulate_communication", messages)
    /\ ret' = Return("None")
    /\ out' = simulate_communication(messages)
    /\ sample' = NoSample
    /\ NoSimLocals
    /\ NoMainLocals

\* QCTS.py lines 16-30: the circuit, its statevector, its probabilities
CoinPrepare ==
    /\ pc = "idle"
    /\ pc' = "coin_sample"
    /\ call' = Call("quantum_coin_toss", <<>>)
    /\ qc' = CoinCircuit
    /\ state' = Statevector(CoinCircuit, 1)
    /\ probabilities' = CoinProbabilities
    /\ ret' = NoRet
    /\ out' = <<>>
    /\ sample' = NoSample
    /\ NoMainLocals

\* QCTS.py lines 33-39: the sample and the result
CoinSample ==
    /\ pc = "coin_sample"
    /\ pc' = "done"
    /\ \E toss_result \in Choices(probabilities) :
        /\ sample' = toss_result
        /\ ret' = Return(<<CoinResult(toss_result), probabilities>>)
    /\ UNCHANGED <<call, qc, state, probabilities, out, message, more_messages, nsim>>

\* QRNG.py lines 18-26: the circuit, its statevector, its probabilities
RngPrepare(num_bits) ==
    /\ pc = "idle"
    /\ pc' = "rng_sample"
    /\ call' = Call("generate_quantum_random_number", num_bits)
    /\ qc' = RngCircuit(num_bits)
    /\ state' = Statevector(RngCircuit(num_bits), num_bits)
    /\ probabilities' = RngProbabilities(num_bits)
    /\ ret' = NoRet
    /\ out' = <<>>
    /\ sample' = NoSample
    /\ NoMainLocals

\* QRNG.py lines 29-30: the sample, returned with the circuit
RngSample ==
    /\ pc = "rng_sample"
    /\ pc' = "done"
    /\ \E outcome \in Choices(probabilities) :
        /\ sample' = outcome
        /\ ret' = Return(<<outcome, qc>>)
    /\ UNCHANGED <<call, qc, state, probabilities, out, message, more_messages, nsim>>

(***************************************************************************)
(* QDS.py: main, one action per input() it reads.                          *)
(***************************************************************************)
MainInputs == Msgs \cup {"EXIT", "yes"}
Answers == {"yes", "YES", "Yes", "no", "NO", ""}

\* line 102
MainStart ==
    /\ pc = "idle"
    /\ pc' = "main_prompt"
    /\ call' = Call("main", <<>>)
    /\ ret' = NoRet
    /\ out' = <<Line("Welcome to the Quantum Digital Signature Simulator!", "")>>
    /\ sample' = NoSample
    /\ NoSimLocals
    /\ NoMainLocals

\* variant of MainReadMessage without the `continue` of line 116: an invalid
\* input falls through to the simulation
MainReadMessage_NoContinue(m) ==
    /\ pc = "main_prompt"
    /\ message' = m
    /\ IF m = "exit"
       THEN /\ pc' = "done"
            /\ call' = Call("main", <<>>)
            /\ ret' = Return("None")
            /\ out' = <<Line("Exiting the simulation...", "")>>
            /\ nsim' = nsim
       ELSE /\ nsim < MaxRounds
            /\ pc' = "main_more"
            /\ call' = Call("simulate_communication", <<m>>)
            /\ out' = (IF m \notin {"0", "1"}
                       THEN <<Line("Invalid input. Please enter '0' or '1'.", "")>>
                       ELSE <<>>) \o simulate_communication(<<m>>)
            /\ nsim' = nsim + 1
            /\ ret' = ret
    /\ UNCHANGED <<qc, state, probabilities, sample, more_messages>>

\* lines 107-119: one line read at the first prompt
MainReadMessage(m) ==
    /\ pc = "main_prompt"
    /\ message' = m
    /\ IF m = "exit"
       THEN /\ pc' = "done"
            /\ call' = Call("main", <<>>)
            /\ ret' = Return("None")
            /\ out' = <<Line("Exiting the simulation...", "")>>
            /\ nsim' = nsim
       ELSE IF m \notin {"0", "1"}
       THEN /\ pc' = "main_prompt"
            /\ out' = <<Line("Invalid input. Please enter '0' or '1'.", "")>>
            /\ UNCHANGED <<call, ret, nsim>>
       ELSE /\ nsim < MaxRounds
            /\ pc' = "main_more"
            /\ call' = Call("simulate_communication", <<m>>)
            /\ out' = simulate_communication(<<m>>)
            /\ nsim' = nsim + 1
            /\ ret' = ret
    /\ UNCHANGED <<qc, state, probabilities, sample, more_messages>>

\* lines 122-125: the answer to "send another message?"
MainReadMore(a) ==
    /\ pc = "main_more"
    /\ more_messages' = a
    /\ IF Lower(a) # "yes"
       THEN /\ pc' = "done"
            /\ call' = Call("main", <<>>)
            /\ ret' = Return("None")
            /\ out' = <<Line("Exiting the simulation...", "")>>
       ELSE /\ pc' = "main_prompt"
            /\ out' = <<>>
            /\ UNCHANGED <<call, ret>>
    /\ UNCHANGED <<qc, state, probabilities, sample, message, nsim>>

Next ==
    \/ \E c \in Circuits : SimBegin(c)
    \/ SimX
    \/ SimH
    \/ SimCX
    \/ SimReturn
    \/ \E m \in Msgs : GenerateSignature(m)
    \/ \E c \in Circuits : VerifySignature(c)
    \/ \E messages \in MessageLists : SimulateCommunication(messages)
    \/ CoinPrepare
    \/ CoinSample
    \/ \E num_bits \in 1..MaxBits : RngPrepare(num_bits)
    \/ RngSample
    \/ MainStart
    \/ \E m \in MainInputs : MainReadMessage(m)
    \/ \E a \in Answers : MainReadMore(a)

Spec == Init /\ [][Next]_vars

(***************************************************************************)
(* Properties.                                                             *)
(***************************************************************************)
SimReturned == pc = "done" /\ call.fn = "simulate_quantum_circuit"

Half == [a |-> 1, b |-> 0, k |-> 1]

C2_ControlledX ==
    (SimReturned /\ call.arg = <<X(0), CX(0, 1)>>)
        => ret.value = Vec4(Zero, Zero, Zero, One)

\* the gate sequence of the signature for message bit m
SignatureGates(m) == (IF m = "1" THEN <<X(0)>> ELSE <<>>) \o <<H(1), CX(0, 1)>>

Reorderings(c) ==
    {[i \in 1..Len(c) |-> c[f[i]]] : f \in Permutations(1..Len(c))}

\* C4: there are two gate sequences holding the same gates in a different
\* order (such as X(0), CX(0,1) and CX(0,1), X(0)) whose simulated vectors
\* differ.
C4_OrderSensitive ==
    SimReturned =>
        \E c1 \in Circuits : \E c2 \in Reorderings(c1) :
            simulate_quantum_circuit(c1) # simulate_quantum_circuit(c2)

\* what the simulator does instead: every reordering of the circuit it was
\* given simulates to the vector it returned
SimulatorIgnoresOrder ==
    SimReturned =>
        \A c2 \in Reorderings(call.arg) : simulate_quantum_circuit(c2) = ret.value

\* c without its instructions at positions i and i+1
Without(c, i) == SubSeq(c, 1, i - 1) \o SubSeq(c, i + 2, Len(c))

\* C5: a circuit holding two Hadamard gates in a row on the same qubit
\* simulates to the same vector as the circuit with those two gates removed.
C5_HadamardSelfInverse ==
    SimReturned =>
        \A i \in 1..(Len(call.arg) - 1) :
            (call.arg[i].name = "h" /\ call.arg[i + 1] = call.arg[i])
                => ret.value = simulate_quantum_circuit(Without(call.arg, i))

CoinReturned == pc = "done" /\ call.fn = "quantum_coin_toss"

\* C6: quantum_coin_toss's probability map is {'0': 1/2, '1': 1/2}; it
\* returns 'Heads' exactly when the sampled label is '0' and 'Tails' exactly
\* when it is '1'; no other result is possible and both can happen.
C6_CoinToss ==
    /\ pc = "coin_sample" =>
        /\ qc = <<H(0)>>
        /\ probabilities = [l \in {<<"0">>, <<"1">>} |-> Half]
        /\ \A r \in {"Heads", "Tails"} :
            ENABLED (CoinSample /\ ret'.value[1] = r)
    /\ CoinReturned =>
        /\ ret.value[2] = [l \in {<<"0">>, <<"1">>} |-> Half]
        /\ sample \in {<<"0">>, <<"1">>}
        /\ ret.value[1] \in {"Heads", "Tails"}
        /\ ret.value[1] = "Heads" <=> sample = <<"0">>
        /\ ret.value[1] = "Tails" <=> sample = <<"1">>

C6_Witness == CoinReturned /\ ret.value[1] = "Tails" /\ sample = <<"1">>

RngReturned == pc = "done" /\ call.fn = "generate_quantum_random_number"

Labels(n) == [1..n -> {"0", "1"}]

CommReturned == pc = "done" /\ call.fn = "simulate_communication"

IsMessageLine(ln) == ln[1] = "Alice's message"

\* the messages of the "Alice's message" lines of the output, in order
MessagesPrinted(lines) ==
    LET sel == SelectSeq(lines, IsMessageLine)
    IN  [i \in 1..Len(sel) |-> sel[i][2]]

\* C8: generate_signature raises ValueError for every message other than '0'
\* or '1' and builds no circuit; simulate_communication processes every message
\* of its list in list order, and for an invalid message reports the error
\* without a verification and goes on with the messages that follow.
C8_InvalidMessages ==
    /\ (pc = "done" /\ call.fn = "generate_signature") =>
        /\ call.arg \notin {"0", "1"} => ret = Raise("ValueError")
        /\ call.arg \in {"0", "1"} => ret.kind = "return"
    /\ CommReturned =>
        /\ MessagesPrinted(out) = call.arg
        /\ \A i \in 1..Len(out) :
            IsMessageLine(out[i]) =>
                IF out[i][2] \in {"0", "1"}
                THEN /\ i + 3 <= Len(out)
                     /\ out[i + 1][1] = "Quantum Circuit for Signature Generation"
                     /\ out[i + 2][1] = "Verification result"
                     /\ out[i + 3][1] \in {"Signature verified successfully!",
                                            "Verification failed!"}
                     /\ i + 4 <= Len(out) => IsMessageLine(out[i + 4])
                ELSE /\ i + 1 <= Len(out)
                     /\ out[i + 1] = Line("Error", "ValueError")
                     /\ i + 2 <= Len(out) => IsMessageLine(out[i + 2])

C8_Witness ==
    /\ CommReturned
    /\ call.arg = <<"2", "1", "exit">>
    /\ Len(out) = 8

\* C9: for every valid message m, verify_signature(generate_signature(m))
\* finds amplitude 1 at index 3 and returns '1', so simulate_communication
\* prints 'Signature verified successfully!' for that message.
C9_GenuineVerifies ==
    /\ \A m \in {"0", "1"} :
        (pc = "done" /\ call.fn = "verify_signature"
            /\ call.arg = generate_signature(m).value) => ret.value = "1"
    /\ CommReturned =>
        \A i \in 1..Len(out) :
            (IsMessageLine(out[i]) /\ out[i][2] \in {"0", "1"}) =>
                out[i + 3] = Line("Signature verified successfully!", "")

InMain == pc \in MainPcs

\* C10: in main, simulate_communication is invoked only with a single message
\* that is '0' or '1' (no error line is printed); 'exit' ends the loop without
\* a simulation; an invalid input re-prompts without a simulation and without
\* the continue question; after a simulation an answer that is not 'yes' in
\* any case ends the loop, and nothing follows the end of the loop.
C10_MainStep ==
    /\ InMain =>
        /\ nsim' # nsim =>
            /\ nsim' = nsim + 1
            /\ pc = "main_prompt"
            /\ message' \in {"0", "1"}
            /\ call' = Call("simulate_communication", <<message'>>)
            /\ \A i \in 1..Len(out') : out'[i][1] # "Error"
        /\ (pc = "main_prompt" /\ message' = "exit") =>
            pc' = "done" /\ nsim' = nsim
        /\ (pc = "main_prompt" /\ message' \notin {"exit", "0", "1"}) =>
            pc' = "main_prompt" /\ nsim' = nsim
        /\ (pc = "main_prompt" /\ message' \in {"0", "1"}) =>
            pc' = "main_more" /\ nsim' = nsim + 1
        /\ (pc = "main_more" /\ more_messages' \notin {"yes", "Yes", "YES"}) =>
            pc' = "done" /\ nsim' = nsim
        /\ (pc = "main_more" /\ more_messages' \in {"yes", "Yes", "YES"}) =>
            pc' = "main_prompt" /\ nsim' = nsim
    /\ pc = "done" => UNCHANGED vars

C10_MainLoop == [][C10_MainStep]_vars

C10_Witness ==
    /\ pc = "done"
    /\ call.fn = "main"
    /\ nsim = 2
    /\ message = "exit"
    /\ more_messages = "YES"

====
